---- MODULE Spec2Model ----
(***************************************************************************)
(* MonkeyDB: the progressive (two-generation) hash map of hash_map.cc and  *)
(* the echo server of server.cc, as state machines.                        *)
(*                                                                         *)
(* A bucket chain is the sequence of the nodes linked from the bucket's    *)
(* head pointer (head first); a null bucket array is the empty sequence.   *)
(* A node is named by a positive integer, which is also the key its        *)
(* payload carries; 0 is the null pointer; a negative integer is a pointer *)
(* that a read past the end of a bucket array produced (not a node).       *)
(***************************************************************************)
EXTENDS Integers, Sequences, FiniteSets, TLC

VARIABLES
    \* the map and its caller
    hm,          \* the HashMap
    status,      \* "ok", or "crashed" once a call has faulted
    ref,         \* the keys inserted and not deleted (a plain reference set)
    last,        \* the last call: [op, key, ret]
    nextKey,     \* keys handed out so far
    ndel,        \* successful deletes so far
    hashMode,    \* the caller's hash function
    \* the server, one connection and its peer
    reg,         \* the connection's slot of fd2conn: "pending" (not accepted), "open", "closed"
    conn,        \* the Conn (its last value, once closed)
    log,         \* the messages msg()/msg_errno() have printed
    srv,         \* "running", "aborted" by a failed assert, "killed" by SIGPIPE
    script,      \* the payloads of the frames the peer sends
    stream,      \* the bytes the peer sends: the frames of script, then a tail
    cpos,        \* bytes of stream the peer has written to its socket
    rpos,        \* bytes of stream the server has read
    sent,        \* the bytes the server has written to the socket
    cgot,        \* bytes of sent the peer has read
    peerClosed,  \* the peer has closed its socket
    cpc,         \* the pipelined client: "send", "recv", "done", "fail"
    \* the server with several connections (it shares srv and log)
    fd2conn,     \* the registry: per fd <<>> (NULL) or <<the Conn>>
    pc,          \* the event loop is at "poll" or in the "dispatch" loop
    poll_args,   \* the connections' entries of poll_args: [fd, revents]
    pidx,        \* the index i of the dispatch loop
    net,         \* per fd, the kernel's socket: [open, inq, eof, rst, fresh]
    backlog,     \* connections waiting in the listener's queue
    nconn,       \* connections the peers have made
    torn         \* the teardowns done: [want_close, err]

mapVars == <<hm, status, ref, last, nextKey, ndel, hashMode>>

srvVars == <<reg, conn, log, srv, script, stream, cpos, rpos, sent, cgot, peerClosed, cpc>>

oneVars == <<reg, conn, script, stream, cpos, rpos, sent, cgot, peerClosed, cpc>>

muxVars == <<fd2conn, pc, poll_args, pidx, net, backlog, nconn, torn>>

vars == <<hm, status, ref, last, nextKey, ndel, hashMode,
          reg, conn, log, srv, script, stream, cpos, rpos, sent, cgot, peerClosed, cpc,
          fd2conn, pc, poll_args, pidx, net, backlog, nconn, torn>>

-----------------------------------------------------------------------------
(* Bounds of the model.                                                    *)

\* keys the caller may insert (fresh keys are handed out in order 1, 2, ...)
MaxKeys == 29

\* successful deletes in one run
MaxDel == 1

\* slots past the end of a bucket array that may read as null before the
\* read faults
OobSpan == 1

\* frames in the peer's script
MaxFrames == 2

\* bytes the socket buffers hold in flight: peer to server, server to peer
C2SCap == 5

S2CCap == 5

\* connections the peers make in one run
MaxConnects == 2

-----------------------------------------------------------------------------
(* Program constants.                                                      *)

K_MAX_LOAD_FACTOR == 8

K_REHASHING_WORK == 128

\* hash_map_insert: hash_init(&hash_map->newer, 4)
K_INIT_CAPACITY == 4

Null == 0

\* the hash codes found behind a pointer read from past the end of the array
WildHashes == {1}

WildNodes == {-(h + 1) : h \in WildHashes}

\* the caller's hash functions the runs are drawn from
HashModes == {1, 2, 3}

\* HashNode::hash_code of a node: set by the caller (for a key node), or
\* whatever the memory a wild pointer points at holds
HashCode(node) ==
    IF node < 0 THEN -node - 1
    ELSE CASE hashMode = 1 -> node
           [] hashMode = 2 -> 4 * node
           [] OTHER -> node % 3

RECURSIVE BitAnd(_, _)
\* the C operator & on unsigned integers
BitAnd(a, b) ==
    IF a = 0 \/ b = 0 THEN 0
    ELSE (a % 2) * (b % 2) + 2 * BitAnd(a \div 2, b \div 2)

\* HashTable{}: table nullptr, mask 0, size 0
HashTable == [table |-> <<>>, mask |-> 0, size |-> 0]

\* HashMap{}
HashMap == [newer |-> HashTable, older |-> HashTable, migrate_pos |-> 0]

hash_init(n) ==
    [table |-> [i \in 1..n |-> <<>>], mask |-> n - 1, size |-> n]

\* a hash_insert that links every node into bucket 0
hash_insert_first(hash_table, hash_node) ==
    [hash_table EXCEPT !.table[1] = <<hash_node>> \o @,
                       !.size = @ + 1]

hash_insert(hash_table, hash_node) ==
    LET pos == BitAnd(HashCode(hash_node), hash_table.mask)
    IN  [hash_table EXCEPT !.table[pos + 1] = <<hash_node>> \o @,
                           !.size = @ + 1]

\* the caller's equality on full keys; on a wild pointer it compares memory
\* that is no payload, and may answer either way
eq(node, key) == IF node < 0 THEN BOOLEAN ELSE {node = key}

\* The addresses hash_lookup may return: <<pos, i>> is the link that points at
\* the i-th node of bucket pos, <<>> is nullptr.  One address unless the chain
\* holds a wild pointer with the key's hash code.
hash_lookup(hash_table, key) ==
    IF hash_table.table = <<>> THEN {<<>>}
    ELSE LET pos == BitAnd(HashCode(key), hash_table.mask)
             chain == hash_table.table[pos + 1]
             Cand(i) == HashCode(chain[i]) = HashCode(key)
             Passes(i) == \A j \in 1..(i - 1) :
                              Cand(j) => FALSE \in eq(chain[j], key)
         IN  {<<pos, i>> : i \in {j \in 1..Len(chain) :
                                Cand(j) /\ TRUE \in eq(chain[j], key) /\ Passes(j)}}
             \cup (IF Passes(Len(chain) + 1) THEN {<<>>} ELSE {})

\* the node an address points at
Deref(hash_table, addr) == hash_table.table[addr[1] + 1][addr[2]]

\* a hash_detach that counts the node out and leaves it linked
hash_detach_linked(table, node_addr) == [table EXCEPT !.size = @ - 1]

\* the table after hash_detach (it returns Deref(table, node_addr))
hash_detach(table, node_addr) ==
    LET chain == table.table[node_addr[1] + 1]
        i == node_addr[2]
    IN  [table EXCEPT !.table[node_addr[1] + 1] =
                          SubSeq(chain, 1, i - 1) \o SubSeq(chain, i + 1, Len(chain)),
                      !.size = @ - 1]

\* a rehash that triples the capacity instead of doubling it
hash_map_rehash_triple(hash_map) ==
    [newer |-> hash_init((hash_map.newer.mask + 1) * 3),
     older |-> hash_map.newer,
     migrate_pos |-> 0]

hash_map_rehash(hash_map) ==
    [newer |-> hash_init((hash_map.newer.mask + 1) * 2),
     older |-> hash_map.newer,
     migrate_pos |-> 0]

\* the end of hash_map_migrate: free older once it holds no key
MigrateEnd(hash_map) ==
    IF hash_map.older.size = 0 /\ hash_map.older.table # <<>>
    THEN [hash_map EXCEPT !.older = HashTable]
    ELSE hash_map

RECURSIVE MigrateLoop(_, _)
\* The loop of hash_map_migrate from a map state with `migrated` nodes moved:
\* the set of [hm, crashed] it may end in.  A read of older.table[migrate_pos]
\* past the end of the array is undefined: it faults, reads a null (within
\* OobSpan slots of the array) or reads a wild pointer, which the loop then
\* detaches and links into newer.
MigrateLoop(hash_map, migrated) ==
    IF ~(migrated < K_REHASHING_WORK /\ hash_map.older.size > 0)
    THEN {[hm |-> MigrateEnd(hash_map), crashed |-> FALSE]}
    ELSE LET pos == hash_map.migrate_pos
             cap == Len(hash_map.older.table)
         IN  IF pos < cap
             THEN IF hash_map.older.table[pos + 1] = <<>>
                  THEN MigrateLoop([hash_map EXCEPT !.migrate_pos = pos + 1], migrated)
                  ELSE LET node == Deref(hash_map.older, <<pos, 1>>)
                       IN  MigrateLoop(
                               [hash_map EXCEPT
                                   !.older = hash_detach(hash_map.older, <<pos, 1>>),
                                   !.newer = hash_insert(hash_map.newer, node)],
                               migrated + 1)
             ELSE {[hm |-> hash_map, crashed |-> TRUE]}
                  \cup (IF pos < cap + OobSpan
                        THEN MigrateLoop([hash_map EXCEPT !.migrate_pos = pos + 1], migrated)
                        ELSE {})
                  \cup UNION {MigrateLoop(
                                  [hash_map EXCEPT
                                      !.older.size = @ - 1,
                                      !.newer = hash_insert(hash_map.newer, w)],
                                  migrated + 1) : w \in WildNodes}

hash_map_migrate(hash_map) == MigrateLoop(hash_map, 0)

\* The results of hash_map_lookup: [hm, crashed, ret].
hash_map_lookup(hash_map, key) ==
    UNION {IF m.crashed THEN {[hm |-> m.hm, crashed |-> TRUE, ret |-> Null]}
           ELSE UNION {
                  IF a # <<>>
                  THEN {[hm |-> m.hm, crashed |-> FALSE, ret |-> Deref(m.hm.newer, a)]}
                  ELSE {[hm |-> m.hm, crashed |-> FALSE,
                         ret |-> IF b # <<>> THEN Deref(m.hm.older, b) ELSE Null]
                           : b \in hash_lookup(m.hm.older, key)}
                  : a \in hash_lookup(m.hm.newer, key)}
           : m \in hash_map_migrate(hash_map)}

\* The results of hash_map_delete: [hm, crashed, ret].
hash_map_delete(hash_map, key) ==
    UNION {IF m.crashed THEN {[hm |-> m.hm, crashed |-> TRUE, ret |-> Null]}
           ELSE UNION {
                  IF a # <<>>
                  THEN {[hm |-> [m.hm EXCEPT !.newer = hash_detach(m.hm.newer, a)],
                         crashed |-> FALSE, ret |-> Deref(m.hm.newer, a)]}
                  ELSE {IF b # <<>>
                        THEN [hm |-> [m.hm EXCEPT !.older = hash_detach(m.hm.older, b)],
                              crashed |-> FALSE, ret |-> Deref(m.hm.older, b)]
                        ELSE [hm |-> m.hm, crashed |-> FALSE, ret |-> Null]
                           : b \in hash_lookup(m.hm.older, key)}
                  : a \in hash_lookup(m.hm.newer, key)}
           : m \in hash_map_migrate(hash_map)}

\* The results of hash_map_insert: [hm, crashed].
hash_map_insert(hash_map, node) ==
    LET h1 == IF hash_map.newer.table = <<>>
              THEN [hash_map EXCEPT !.newer = hash_init(K_INIT_CAPACITY)]
              ELSE hash_map
        h2 == [h1 EXCEPT !.newer = hash_insert(h1.newer, node)]
        threshold == (h2.newer.mask + 1) * K_MAX_LOAD_FACTOR
        h3 == IF h2.older.table = <<>> /\ h2.newer.size >= threshold
              THEN hash_map_rehash(h2)
              ELSE h2
    IN  hash_map_migrate(h3)

-----------------------------------------------------------------------------
(* The server: framing, and the handlers of one connection.                *)

\* 32 << 20
K_MAX_MSG == 33554432

\* handle_read: uint8_t buf[64 * 1024]
K_READ_BUF == 65536

\* memcpy(&len, data, 4): the first 4 bytes as a uint32_t, little-endian
U32(data) == data[1] + 256 * data[2] + 65536 * data[3] + 16777216 * data[4]

\* the 4 bytes of a uint32_t: reinterpret_cast<const uint8_t *>(&len)
U32Bytes(len) ==
    <<len % 256, (len \div 256) % 256, (len \div 65536) % 256, (len \div 16777216) % 256>>

\* Conn{}: fd -1, no flag set, empty buffers
Conn == [want_read |-> FALSE, want_write |-> FALSE, want_close |-> FALSE,
         incoming |-> <<>>, outgoing |-> <<>>]

buf_append(buf, data) == buf \o data

\* a buf_consume that removes one byte more
buf_consume_more(buf, n) == SubSeq(buf, n + 2, Len(buf))

buf_consume(buf, n) == SubSeq(buf, n + 1, Len(buf))

\* a try_one_request that also rejects a header of exactly K_MAX_MSG
try_one_request_strict(c) ==
    IF Len(c.incoming) < 4
    THEN [conn |-> c, more |-> FALSE, log |-> {}]
    ELSE LET len == U32(c.incoming)
         IN  IF len >= K_MAX_MSG
             THEN [conn |-> [c EXCEPT !.want_close = TRUE], more |-> FALSE,
                   log |-> {"too long"}]
             ELSE IF 4 + len > Len(c.incoming)
             THEN [conn |-> c, more |-> FALSE, log |-> {}]
             ELSE [conn |-> [c EXCEPT
                       !.outgoing = buf_append(buf_append(@, U32Bytes(len)),
                                               SubSeq(c.incoming, 5, 4 + len)),
                       !.incoming = buf_consume(@, 4 + len)],
                   more |-> TRUE, log |-> {}]

\* try_one_request: [conn, more, log], more being its return value.  Past the
\* check of K_MAX_MSG, 4 + len is below 2^32 and does not wrap.
try_one_request(c) ==
    IF Len(c.incoming) < 4
    THEN [conn |-> c, more |-> FALSE, log |-> {}]
    ELSE LET len == U32(c.incoming)
         IN  IF len > K_MAX_MSG
             THEN [conn |-> [c EXCEPT !.want_close = TRUE], more |-> FALSE,
                   log |-> {"too long"}]
             ELSE IF 4 + len > Len(c.incoming)
             THEN [conn |-> c, more |-> FALSE, log |-> {}]
             ELSE [conn |-> [c EXCEPT
                       !.outgoing = buf_append(buf_append(@, U32Bytes(len)),
                                               SubSeq(c.incoming, 5, 4 + len)),
                       !.incoming = buf_consume(@, 4 + len)],
                   more |-> TRUE, log |-> {}]

\* a handle_read that calls try_one_request once instead of in a loop
DecodeOnce(c) ==
    LET r == try_one_request(c)
    IN  [conn |-> r.conn, log |-> r.log]

RECURSIVE DecodeLoop(_)
\* while (try_one_request(conn)) {}: [conn, log]
DecodeLoop(c) ==
    LET r == try_one_request(c)
    IN  IF r.more THEN DecodeLoop(r.conn) ELSE [conn |-> r.conn, log |-> r.log]

\* a handle_accept that leaves the new connection without interest in reading
handle_accept_idle == Conn

\* handle_accept, when accept() succeeds: fcntl() on the fd that accept() has
\* just returned does not fail, so fd_set_nb returns
handle_accept == [Conn EXCEPT !.want_read = TRUE]

\* write(fd, data, n) on the non-blocking socket, w being what the kernel does:
\* [kind |-> "ok", n |-> bytes it has room for], "EAGAIN", "error", or
\* "SIGPIPE" (EPIPE, with the signal)
sys_write(data, w) ==
    IF w.kind = "ok"
    THEN [kind |-> "ok", n |-> IF w.n < Len(data) THEN w.n ELSE Len(data)]
    ELSE [kind |-> w.kind, n |-> 0]

\* a handle_write that keeps want_write once outgoing is empty
handle_write_noflip(c, w) ==
    IF ~(Len(c.outgoing) > 0)
    THEN [conn |-> c, wrote |-> <<>>, log |-> {}, exit |-> "assert"]
    ELSE LET rv == sys_write(c.outgoing, w)
         IN  IF rv.kind = "EAGAIN"
             THEN [conn |-> c, wrote |-> <<>>, log |-> {}, exit |-> "no"]
             ELSE IF rv.kind = "SIGPIPE"
             THEN [conn |-> c, wrote |-> <<>>, log |-> {}, exit |-> "SIGPIPE"]
             ELSE IF rv.kind = "error"
             THEN [conn |-> [c EXCEPT !.want_close = TRUE], wrote |-> <<>>,
                   log |-> {"write() error"}, exit |-> "no"]
             ELSE [conn |-> [c EXCEPT !.outgoing = buf_consume(@, rv.n)],
                   wrote |-> SubSeq(c.outgoing, 1, rv.n),
                   log |-> {}, exit |-> "no"]

\* a handle_write that leaves the bytes it has written in outgoing
handle_write_keep(c, w) ==
    IF ~(Len(c.outgoing) > 0)
    THEN [conn |-> c, wrote |-> <<>>, log |-> {}, exit |-> "assert"]
    ELSE LET rv == sys_write(c.outgoing, w)
         IN  IF rv.kind = "EAGAIN"
             THEN [conn |-> c, wrote |-> <<>>, log |-> {}, exit |-> "no"]
             ELSE IF rv.kind = "SIGPIPE"
             THEN [conn |-> c, wrote |-> <<>>, log |-> {}, exit |-> "SIGPIPE"]
             ELSE IF rv.kind = "error"
             THEN [conn |-> [c EXCEPT !.want_close = TRUE], wrote |-> <<>>,
                   log |-> {"write() error"}, exit |-> "no"]
             ELSE [conn |-> c, wrote |-> SubSeq(c.outgoing, 1, rv.n),
                   log |-> {}, exit |-> "no"]

\* handle_write: [conn, wrote, log, exit]; exit tells whether the process ends
\* in the call: on the failed assert, or on the SIGPIPE that write() raises on
\* a connection the peer has shut (the signal is neither ignored nor handled
\* anywhere in server.cc, so it terminates the process)
handle_write(c, w) ==
    IF ~(Len(c.outgoing) > 0)
    THEN [conn |-> c, wrote |-> <<>>, log |-> {}, exit |-> "assert"]
    ELSE LET rv == sys_write(c.outgoing, w)
         IN  IF rv.kind = "EAGAIN"
             THEN [conn |-> c, wrote |-> <<>>, log |-> {}, exit |-> "no"]
             ELSE IF rv.kind = "SIGPIPE"
             THEN [conn |-> c, wrote |-> <<>>, log |-> {}, exit |-> "SIGPIPE"]
             ELSE IF rv.kind = "error"
             THEN [conn |-> [c EXCEPT !.want_close = TRUE], wrote |-> <<>>,
                   log |-> {"write() error"}, exit |-> "no"]
             ELSE LET c1 == [c EXCEPT !.outgoing = buf_consume(@, rv.n)]
                  IN  [conn |-> IF Len(c1.outgoing) = 0
                                THEN [c1 EXCEPT !.want_read = TRUE, !.want_write = FALSE]
                                ELSE c1,
                       wrote |-> SubSeq(c.outgoing, 1, rv.n),
                       log |-> {}, exit |-> "no"]

\* a handle_read that buffers the replies and never turns to writing them
handle_read_silent(c, r, w) ==
    IF r.kind = "EAGAIN"
    THEN [conn |-> c, wrote |-> <<>>, log |-> {}, exit |-> "no"]
    ELSE IF r.kind = "error"
    THEN [conn |-> [c EXCEPT !.want_close = TRUE], wrote |-> <<>>,
          log |-> {"read() error"}, exit |-> "no"]
    ELSE IF Len(r.data) = 0
    THEN [conn |-> [c EXCEPT !.want_close = TRUE], wrote |-> <<>>,
          log |-> {IF Len(c.incoming) = 0 THEN "client closed" ELSE "unexpected EOF"},
          exit |-> "no"]
    ELSE LET d == DecodeLoop([c EXCEPT !.incoming = buf_append(@, r.data)])
         IN  [conn |-> d.conn, wrote |-> <<>>, log |-> d.log, exit |-> "no"]

\* a handle_read that takes the end of file for a clean close only when incoming
\* is empty, and otherwise waits for the rest of the frame
handle_read_lenient(c, r, w) ==
    IF r.kind = "EAGAIN"
    THEN [conn |-> c, wrote |-> <<>>, log |-> {}, exit |-> "no"]
    ELSE IF r.kind = "error"
    THEN [conn |-> [c EXCEPT !.want_close = TRUE], wrote |-> <<>>,
          log |-> {"read() error"}, exit |-> "no"]
    ELSE IF Len(r.data) = 0
    THEN [conn |-> [c EXCEPT !.want_close = (Len(c.incoming) = 0)], wrote |-> <<>>,
          log |-> {IF Len(c.incoming) = 0 THEN "client closed" ELSE "unexpected EOF"},
          exit |-> "no"]
    ELSE LET d == DecodeLoop([c EXCEPT !.incoming = buf_append(@, r.data)])
         IN  IF Len(d.conn.outgoing) > 0
             THEN LET h == handle_write([d.conn EXCEPT !.want_read = FALSE,
                                                       !.want_write = TRUE], w)
                  IN  [h EXCEPT !.log = d.log \cup @]
             ELSE [conn |-> d.conn, wrote |-> <<>>, log |-> d.log, exit |-> "no"]

\* handle_read, r being what read() does: [kind |-> "data", data |-> bytes]
\* (no bytes: rv = 0), "EAGAIN" or "error"; w is what its write() does
handle_read(c, r, w) ==
    IF r.kind = "EAGAIN"
    THEN [conn |-> c, wrote |-> <<>>, log |-> {}, exit |-> "no"]
    ELSE IF r.kind = "error"
    THEN [conn |-> [c EXCEPT !.want_close = TRUE], wrote |-> <<>>,
          log |-> {"read() error"}, exit |-> "no"]
    ELSE IF Len(r.data) = 0
    THEN [conn |-> [c EXCEPT !.want_close = TRUE], wrote |-> <<>>,
          log |-> {IF Len(c.incoming) = 0 THEN "client closed" ELSE "unexpected EOF"},
          exit |-> "no"]
    ELSE LET d == DecodeLoop([c EXCEPT !.incoming = buf_append(@, r.data)])
         IN  IF Len(d.conn.outgoing) > 0
             THEN LET h == handle_write([d.conn EXCEPT !.want_read = FALSE,
                                                       !.want_write = TRUE], w)
                  IN  [h EXCEPT !.log = d.log \cup @]
             ELSE [conn |-> d.conn, wrote |-> <<>>, log |-> d.log, exit |-> "no"]

\* a dispatch that tears down every connection it has handled
Dispatch_eager(c, ready, r, w1, w2) ==
    LET a == IF "POLLIN" \in ready THEN handle_read(c, r, w1)
             ELSE [conn |-> c, wrote |-> <<>>, log |-> {}, exit |-> "no"]
        b == IF "POLLOUT" \in ready /\ a.exit = "no" THEN handle_write(a.conn, w2)
             ELSE [conn |-> a.conn, wrote |-> <<>>, log |-> {}, exit |-> a.exit]
    IN  [conn |-> b.conn, wrote |-> a.wrote \o b.wrote, log |-> a.log \cup b.log,
         exit |-> b.exit,
         close |-> b.exit = "no"]

\* main, lines 331-347: the dispatch of the connection's readiness events and
\* its teardown: [conn, wrote, log, exit, close]
Dispatch(c, ready, r, w1, w2) ==
    LET a == IF "POLLIN" \in ready THEN handle_read(c, r, w1)
             ELSE [conn |-> c, wrote |-> <<>>, log |-> {}, exit |-> "no"]
        b == IF "POLLOUT" \in ready /\ a.exit = "no" THEN handle_write(a.conn, w2)
             ELSE [conn |-> a.conn, wrote |-> <<>>, log |-> {}, exit |-> a.exit]
    IN  [conn |-> b.conn, wrote |-> a.wrote \o b.wrote, log |-> a.log \cup b.log,
         exit |-> b.exit,
         close |-> b.exit = "no" /\ ("POLLERR" \in ready \/ b.conn.want_close)]

-----------------------------------------------------------------------------
(* The peer and the sockets.                                               *)

\* the payloads the peer's frames carry
Payloads == {<<>>, <<8, 9>>}

\* send_req: the frame of a payload
Frame(payload) == U32Bytes(Len(payload)) \o payload

RECURSIVE EncodeAll(_)
\* the frames of a sequence of payloads, back to back
EncodeAll(payloads) ==
    IF payloads = <<>> THEN <<>>
    ELSE Frame(Head(payloads)) \o EncodeAll(Tail(payloads))

Scripts == UNION {[1..n -> Payloads] : n \in 0..MaxFrames}

\* what a peer that is no client of this repository may send after its frames:
\* nothing, a header of 32 MiB + 1 and then a frame, or a header of 32 MiB
Tails == {<<>>, <<1, 0, 0, 2>> \o Frame(<<>>), <<0, 0, 0, 2>>}

\* bytes in flight
Avail == cpos - rpos

InFlightBack == Len(sent) - cgot

Min(a, b) == IF a < b THEN a ELSE b

\* what poll() reports for the connection, given the error bit
Ready(err) ==
    (IF conn.want_read /\ (Avail > 0 \/ peerClosed) THEN {"POLLIN"} ELSE {})
    \cup (IF conn.want_write /\ InFlightBack < S2CCap THEN {"POLLOUT"} ELSE {})
    \cup (IF err THEN {"POLLERR"} ELSE {})

\* what read() may do: the next bytes of the stream (any number that has arrived
\* and fits buf), end of file once the peer has closed, or, with faults, an
\* error or a spurious EAGAIN
ReadResults(faults) ==
    {[kind |-> "data", data |-> SubSeq(stream, rpos + 1, rpos + n)] :
        n \in 1..Min(Avail, K_READ_BUF)}
    \cup (IF Avail = 0 /\ peerClosed THEN {[kind |-> "data", data |-> <<>>]} ELSE {})
    \cup (IF faults THEN {[kind |-> "error", data |-> <<>>],
                          [kind |-> "EAGAIN", data |-> <<>>]} ELSE {})

\* what write() may do with `used` bytes in flight to the peer; once the peer
\* has closed with bytes of the server it will never read, its kernel resets
\* the connection and a write() may end in EPIPE
WriteResults(faults, used) ==
    {[kind |-> "ok", n |-> n] : n \in 1..(S2CCap - used)}
    \cup (IF used >= S2CCap THEN {[kind |-> "EAGAIN", n |-> 0]} ELSE {})
    \cup (IF faults THEN {[kind |-> "error", n |-> 0]} ELSE {})
    \cup (IF faults /\ peerClosed /\ used > 0
          THEN {[kind |-> "SIGPIPE", n |-> 0]} ELSE {})

\* the map, untouched by the server
MapIdle ==
    /\ hm = HashMap
    /\ status = "ok"
    /\ ref = {}
    /\ last = [op |-> "none", key |-> 0, ret |-> Null]
    /\ nextKey = 0
    /\ ndel = 0
    /\ hashMode = 1

\* the server before any client has connected
SrvIdle ==
    /\ reg = "pending"
    /\ conn = Conn
    /\ log = {}
    /\ srv = "running"
    /\ script = <<>>
    /\ stream = <<>>
    /\ cpos = 0
    /\ rpos = 0
    /\ sent = <<>>
    /\ cgot = 0
    /\ peerClosed = FALSE
    /\ cpc = "none"

\* the fds accept() hands out: the slots of fd2conn that connections take
Fds == {1, 2}

\* a socket the server does not hold
NoSocket == [open |-> FALSE, inq |-> <<>>, eof |-> FALSE, rst |-> FALSE, fresh |-> FALSE]

\* std::vector<Conn*> fd2conn, empty, at the first poll()
MuxIdle ==
    /\ fd2conn = [fd \in Fds |-> <<>>]
    /\ pc = "poll"
    /\ poll_args = <<>>
    /\ pidx = 0
    /\ net = [fd \in Fds |-> NoSocket]
    /\ backlog = 0
    /\ nconn = 0
    /\ torn = <<>>

\* main, lines 318-328: the pass that accepts the connection
ServerAccept(faults) ==
    /\ reg = "pending" /\ srv = "running"
    /\ \E ok \in (IF faults THEN BOOLEAN ELSE {TRUE}) :
          IF ok THEN reg' = "open" /\ conn' = handle_accept
          ELSE UNCHANGED <<reg, conn>>
    /\ UNCHANGED <<log, srv, script, stream, cpos, rpos, sent, cgot, peerClosed, cpc>>
    /\ UNCHANGED mapVars
    /\ UNCHANGED muxVars

\* a call that is not made
NoRead == [kind |-> "EAGAIN", data |-> <<>>]

NoWrite == [kind |-> "EAGAIN", n |-> 0]

\* What one iteration of the event loop (main, lines 288-347) in which poll()
\* reports events of the connection may meet: every event set poll() may
\* report, and everything the read() of handle_read (r), the write() that
\* follows it (w1) and the write() of the dispatched handle_write (w2) may do.
PassInputs(faults) ==
    UNION {
      LET ready == Ready(err)
      IN  IF ready = {} THEN {}
          ELSE UNION {UNION {
                 {[ready |-> ready, r |-> r, w1 |-> w1, w2 |-> w2]
                    : w2 \in (IF "POLLOUT" \in ready
                              THEN WriteResults(faults,
                                       InFlightBack
                                       + Len(Dispatch(conn, ready \ {"POLLOUT"},
                                                      r, w1, w1).wrote))
                              ELSE {NoWrite})}
                 : w1 \in (IF "POLLIN" \in ready /\ r.kind = "data" /\ Len(r.data) > 0
                           THEN WriteResults(faults, InFlightBack) ELSE {NoWrite})}
                 : r \in (IF "POLLIN" \in ready THEN ReadResults(faults) ELSE {NoRead})}
      : err \in (IF faults THEN BOOLEAN ELSE {FALSE})}

\* The outcomes of that iteration: what the dispatch leaves, and the number of
\* bytes it has taken from the socket.
PassOutcomes(faults) ==
    {[d |-> Dispatch(conn, i.ready, i.r, i.w1, i.w2),
      nread |-> IF "POLLIN" \in i.ready /\ i.r.kind = "data"
                THEN Len(i.r.data) ELSE 0]
       : i \in PassInputs(faults)}

\* main, lines 288-347: one iteration of the event loop in which poll() reports
\* events of the connection
ServerPass(faults) ==
    /\ reg = "open" /\ srv = "running"
    /\ \E o \in PassOutcomes(faults) :
          /\ conn' = o.d.conn
          /\ sent' = sent \o o.d.wrote
          /\ log' = log \cup o.d.log
          /\ srv' = CASE o.d.exit = "assert" -> "aborted"
                      [] o.d.exit = "SIGPIPE" -> "killed"
                      [] OTHER -> "running"
          /\ reg' = IF o.d.close \/ o.d.exit # "no" THEN "closed" ELSE "open"
          /\ rpos' = rpos + o.nread
    /\ UNCHANGED <<script, stream, cpos, cgot, peerClosed, cpc>>
    /\ UNCHANGED mapVars
    /\ UNCHANGED muxVars

\* the peer writes the next bytes of its stream, as many as the socket takes
PeerSend ==
    /\ reg # "closed" /\ ~peerClosed
    /\ \E n \in 1..Min(C2SCap - Avail, Len(stream) - cpos) : cpos' = cpos + n
    /\ UNCHANGED <<reg, conn, log, srv, script, stream, rpos, sent, cgot, peerClosed, cpc>>
    /\ UNCHANGED mapVars
    /\ UNCHANGED muxVars

\* the peer reads bytes the server has written
PeerRecv ==
    /\ reg # "closed" /\ ~peerClosed
    /\ \E n \in 1..InFlightBack : cgot' = cgot + n
    /\ UNCHANGED <<reg, conn, log, srv, script, stream, cpos, rpos, sent, peerClosed, cpc>>
    /\ UNCHANGED mapVars
    /\ UNCHANGED muxVars

\* the peer closes its socket, having written its stream
PeerClose ==
    /\ reg # "closed" /\ ~peerClosed
    /\ cpos = Len(stream)
    /\ peerClosed' = TRUE
    /\ UNCHANGED <<reg, conn, log, srv, script, stream, cpos, rpos, sent, cgot, cpc>>
    /\ UNCHANGED mapVars
    /\ UNCHANGED muxVars

\* a peer that sends frames and a tail in any pieces, reads when it likes and
\* closes once it has sent them; it is followed until the server closes the
\* connection
InitConn ==
    /\ MapIdle
    /\ MuxIdle
    /\ reg = "pending"
    /\ conn = Conn
    /\ log = {}
    /\ srv = "running"
    /\ script \in Scripts
    /\ \E tail \in Tails : stream = EncodeAll(script) \o tail
    /\ cpos = 0
    /\ rpos = 0
    /\ sent = <<>>
    /\ cgot = 0
    /\ peerClosed = FALSE
    /\ cpc = "none"

NextConn ==
    \/ ServerAccept(TRUE)
    \/ ServerPass(TRUE)
    \/ PeerSend
    \/ PeerRecv
    \/ PeerClose

SpecConn == InitConn /\ [][NextConn]_vars

-----------------------------------------------------------------------------
(* The pipelined client of server.cc, lines 465-504.                       *)

\* the client's cap on a message (32 << 20)
k_max_msg == 33554432

RECURSIVE RespParse(_, _)
\* read_res over the bytes the client has read: [count, need, bad] are the
\* replies read in full, the bytes the pending read_full still waits for, and
\* whether the last header is over k_max_msg
RespParse(bytes, count) ==
    IF Len(bytes) < 4
    THEN [count |-> count, need |-> 4 - Len(bytes), bad |-> FALSE]
    ELSE LET len == U32(bytes)
         IN  IF len > k_max_msg
             THEN [count |-> count, need |-> 0, bad |-> TRUE]
             ELSE IF Len(bytes) < 4 + len
             THEN [count |-> count, need |-> 4 + len - Len(bytes), bad |-> FALSE]
             ELSE RespParse(SubSeq(bytes, 5 + len, Len(bytes)), count + 1)

\* the ends of the client's frames in its stream
Boundaries == {Len(EncodeAll(SubSeq(script, 1, i))) : i \in 1..Len(script)}

\* the end of the frame write_all is writing
FrameEnd == CHOOSE b \in Boundaries :
                b > cpos /\ \A b2 \in Boundaries : b2 > cpos => b <= b2

\* send_req / write_all: one blocking write() of the frame being sent; the
\* client turns to reading once the last frame is written
ClientSend ==
    /\ cpc = "send"
    /\ IF reg = "closed"
       THEN cpc' = "fail" /\ peerClosed' = TRUE /\ cpos' = cpos
       ELSE /\ \E n \in 1..Min(C2SCap - Avail, FrameEnd - cpos) :
                  /\ cpos' = cpos + n
                  /\ cpc' = IF cpos + n = Len(stream) THEN "recv" ELSE "send"
            /\ peerClosed' = peerClosed
    /\ UNCHANGED <<reg, conn, log, srv, script, stream, rpos, sent, cgot>>
    /\ UNCHANGED mapVars
    /\ UNCHANGED muxVars

\* read_res / read_full: one blocking read() of the reply being read; after
\* the last reply, or on end of file or a bad header, the client closes
ClientRecv ==
    /\ cpc = "recv"
    /\ LET st == RespParse(SubSeq(sent, 1, cgot), 0)
       IN  IF InFlightBack = 0
           THEN /\ reg = "closed"
                /\ cpc' = "fail" /\ peerClosed' = TRUE /\ cgot' = cgot
           ELSE \E n \in 1..Min(st.need, InFlightBack) :
                   LET st2 == RespParse(SubSeq(sent, 1, cgot + n), 0)
                   IN  /\ cgot' = cgot + n
                       /\ cpc' = IF st2.bad THEN "fail"
                                 ELSE IF st2.count = Len(script) THEN "done"
                                 ELSE "recv"
                       /\ peerClosed' = (st2.bad \/ st2.count = Len(script))
    /\ UNCHANGED <<reg, conn, log, srv, script, stream, cpos, rpos, sent>>
    /\ UNCHANGED mapVars
    /\ UNCHANGED muxVars

\* the client has connected and is about to send its k >= 1 frames
InitPipe ==
    /\ MapIdle
    /\ MuxIdle
    /\ reg = "pending"
    /\ conn = Conn
    /\ log = {}
    /\ srv = "running"
    /\ script \in Scripts \ {<<>>}
    /\ stream = EncodeAll(script)
    /\ cpos = 0
    /\ rpos = 0
    /\ sent = <<>>
    /\ cgot = 0
    /\ peerClosed = FALSE
    /\ cpc = "send"

\* poll() has an event of the connection to report, so that the loop makes a
\* pass: PassReady is ENABLED <<ServerPass(FALSE)>>_vars, as every pass that
\* handles an event reads or writes a byte, closes the connection or ends the process
PassReady == reg = "open" /\ srv = "running" /\ Ready(FALSE) # {}

NextPipe ==
    \/ ServerAccept(FALSE)
    \/ ServerPass(FALSE)
    \/ ClientSend
    \/ ClientRecv

\* The event loop runs for ever and poll() returns whenever an event is ready;
\* the client is a running process whose blocking calls return when they can.
\* The third condition is WF_vars(ServerPass(FALSE)) with its ENABLED written
\* as the state predicate PassReady.
SpecPipe ==
    /\ InitPipe
    /\ [][NextPipe]_vars
    /\ WF_vars(ServerAccept(FALSE))
    /\ ([]<>(~PassReady) \/ []<><<ServerPass(FALSE)>>_vars)
    /\ WF_vars(ClientSend)
    /\ WF_vars(ClientRecv)

-----------------------------------------------------------------------------
(* The event loop with several connections (main, lines 284-347), one      *)
(* action per step of an iteration: the readiness build, poll() and the    *)
(* accept; then one trip of the dispatch loop per polled connection.       *)

\* what a peer sends in one piece: a frame, or a header of 32 MiB + 1
MuxChunks == {Frame(<<>>), <<1, 0, 0, 2>>}

Live(fd) == fd2conn[fd] # <<>>

\* for (Conn *conn : fd2conn) { if (!conn) continue; ... }: the fds polled,
\* in the order of the registry
PolledFds == SelectSeq([fd \in 1..Cardinality(Fds) |-> fd], Live)

\* the revents poll() reports for a connection: what was asked for (POLLIN
\* iff want_read, POLLOUT iff want_write) and is ready, and the error bit
Revents(fd, err) ==
    LET c == fd2conn[fd][1]
    IN  (IF c.want_read /\ (net[fd].inq # <<>> \/ net[fd].eof) THEN {"POLLIN"} ELSE {})
        \cup (IF c.want_write THEN {"POLLOUT"} ELSE {})
        \cup (IF err THEN {"POLLERR"} ELSE {})

\* accept(): the lowest fd the process has not open
FreeFds == {fd \in Fds : ~net[fd].open}

LowestFree == CHOOSE fd \in FreeFds : \A g \in FreeFds : fd <= g

\* what read() on a connection may do: it returns all the bytes that have
\* arrived or the first of them only, end of file, an error or EAGAIN
MuxReads(fd) ==
    {[kind |-> "data", data |-> SubSeq(net[fd].inq, 1, n)] :
        n \in {m \in {1, Len(net[fd].inq)} : m <= Len(net[fd].inq)}}
    \cup (IF net[fd].inq = <<>> /\ net[fd].eof
          THEN {[kind |-> "data", data |-> <<>>]} ELSE {})
    \cup {[kind |-> "error", data |-> <<>>], [kind |-> "EAGAIN", data |-> <<>>]}

\* what write() on a connection may do: the kernel takes one byte, or all of
\* them up to K_READ_BUF, or none, fails, or, the peer having reset the
\* connection, fails with EPIPE and raises SIGPIPE
MuxWrites(fd) ==
    {[kind |-> "ok", n |-> n] : n \in {1, K_READ_BUF}}
    \cup {[kind |-> "EAGAIN", n |-> 0], [kind |-> "error", n |-> 0]}
    \cup (IF net[fd].rst THEN {[kind |-> "SIGPIPE", n |-> 0]} ELSE {})

\* a peer connects
MuxConnect ==
    /\ srv = "running"
    /\ nconn < MaxConnects
    /\ nconn' = nconn + 1
    /\ backlog' = backlog + 1
    /\ UNCHANGED <<fd2conn, pc, poll_args, pidx, net, torn, log, srv>>
    /\ UNCHANGED oneVars
    /\ UNCHANGED mapVars

\* the peer of a connection sends its piece of data
MuxSend ==
    /\ srv = "running"
    /\ \E fd \in Fds : \E ch \in MuxChunks :
          /\ net[fd].open /\ ~net[fd].eof /\ net[fd].fresh
          /\ net' = [net EXCEPT ![fd].inq = @ \o ch, ![fd].fresh = FALSE]
    /\ UNCHANGED <<fd2conn, pc, poll_args, pidx, backlog, nconn, torn, log, srv>>
    /\ UNCHANGED oneVars
    /\ UNCHANGED mapVars

\* the peer of a connection closes its socket, having read what it was sent
MuxClose ==
    /\ srv = "running"
    /\ \E fd \in Fds :
          /\ net[fd].open /\ ~net[fd].eof
          /\ net' = [net EXCEPT ![fd].eof = TRUE]
    /\ UNCHANGED <<fd2conn, pc, poll_args, pidx, backlog, nconn, torn, log, srv>>
    /\ UNCHANGED oneVars
    /\ UNCHANGED mapVars

\* main, lines 288-328: the readiness build, poll(), and the accept of at
\* most one connection.  poll() returns once the listener or a connection has
\* an event; the error bit of a connection is the kernel's to set.
PollAndAccept ==
    /\ srv = "running"
    /\ pc = "poll"
    /\ \E errs \in SUBSET {fd \in Fds : Live(fd)} :
          LET polled == PolledFds
              args == [i \in 1..Len(polled) |->
                          [fd |-> polled[i],
                           revents |-> Revents(polled[i], polled[i] \in errs)]]
          IN  /\ backlog > 0 \/ \E i \in 1..Len(args) : args[i].revents # {}
              /\ poll_args' = IF Len(args) = 0 THEN <<>> ELSE args
              /\ pidx' = IF Len(args) = 0 THEN 0 ELSE 1
              /\ \E ok \in BOOLEAN :
                    IF backlog > 0 /\ ok /\ FreeFds # {}
                    THEN LET fd == LowestFree
                         IN  /\ backlog' = backlog - 1
                             /\ net' = [net EXCEPT ![fd] =
                                           [NoSocket EXCEPT !.open = TRUE,
                                                            !.fresh = TRUE]]
                             /\ IF fd2conn[fd] # <<>>
                                THEN srv' = "aborted" /\ UNCHANGED fd2conn
                                ELSE /\ srv' = srv
                                     /\ fd2conn' = [fd2conn EXCEPT ![fd] = <<handle_accept>>]
                    ELSE UNCHANGED <<backlog, net, fd2conn, srv>>
              /\ pc' = IF Len(args) = 0 \/ srv' # "running" THEN "poll" ELSE "dispatch"
    /\ UNCHANGED <<nconn, torn, log>>
    /\ UNCHANGED oneVars
    /\ UNCHANGED mapVars

\* main, lines 331-347: one trip of the dispatch loop: the handlers of the
\* polled connection and its teardown.  Conn *conn { fd2conn[fd] } is not
\* tested: on a null slot the first access faults.  The last trip ends the
\* iteration, and the next one starts with poll_args.clear().  The messages
\* the handlers print are not followed here.
DispatchOne ==
    /\ srv = "running"
    /\ pc = "dispatch"
    /\ LET fd == poll_args[pidx].fd
           ready == poll_args[pidx].revents
       IN  IF fd2conn[fd] = <<>>
           THEN /\ srv' = "crashed"
                /\ UNCHANGED <<fd2conn, net, torn, pidx, pc, poll_args>>
           ELSE \E r \in (IF "POLLIN" \in ready THEN MuxReads(fd) ELSE {NoRead}) :
                \E w \in (IF ("POLLIN" \in ready /\ r.kind = "data" /\ Len(r.data) > 0)
                             \/ "POLLOUT" \in ready
                          THEN MuxWrites(fd) ELSE {NoWrite}) :
                   LET d == Dispatch(fd2conn[fd][1], ready, r, w, w)
                       nread == IF "POLLIN" \in ready /\ r.kind = "data"
                                THEN Len(r.data) ELSE 0
                   IN  /\ fd2conn' = [fd2conn EXCEPT ![fd] =
                                         IF d.close THEN <<>> ELSE <<d.conn>>]
                       /\ net' = [net EXCEPT ![fd] =
                                     IF d.close THEN NoSocket
                                     ELSE [@ EXCEPT
                                              !.inq = SubSeq(@, nread + 1, Len(@)),
                                              !.rst = @ \/ (net[fd].eof /\ d.wrote # <<>>)]]
                       /\ torn' = IF d.close
                                  THEN Append(torn, [fd |-> fd,
                                                     want_close |-> d.conn.want_close,
                                                     err |-> "POLLERR" \in ready])
                                  ELSE torn
                       /\ srv' = CASE d.exit = "assert" -> "aborted"
                                   [] d.exit = "SIGPIPE" -> "killed"
                                   [] OTHER -> "running"
                       /\ IF pidx < Len(poll_args) /\ d.exit = "no"
                          THEN pidx' = pidx + 1 /\ pc' = "dispatch"
                                                /\ poll_args' = poll_args
                          ELSE pidx' = 0 /\ pc' = "poll" /\ poll_args' = <<>>
    /\ UNCHANGED <<backlog, nconn, log>>
    /\ UNCHANGED oneVars
    /\ UNCHANGED mapVars

InitMux ==
    /\ MapIdle
    /\ SrvIdle
    /\ MuxIdle

NextMux ==
    \/ MuxConnect
    \/ MuxSend
    \/ MuxClose
    \/ PollAndAccept
    \/ DispatchOne

SpecMux == InitMux /\ [][NextMux]_vars

-----------------------------------------------------------------------------
(* The caller of the map: one action per call of the interface.            *)

InitMap ==
    /\ hm = HashMap
    /\ status = "ok"
    /\ ref = {}
    /\ last = [op |-> "none", key |-> 0, ret |-> Null]
    /\ nextKey = 0
    /\ ndel = 0
    /\ hashMode \in HashModes
    /\ SrvIdle
    /\ MuxIdle

\* the keys a lookup or delete is tried on: the oldest and the newest key
\* handed out, and one never inserted
ProbeKeys == {k \in {1, nextKey, nextKey + 1} : k >= 1}

\* hash_map_insert of a fresh node (its key is in the map nowhere)
Insert ==
    /\ status = "ok"
    /\ nextKey < MaxKeys
    /\ \E r \in hash_map_insert(hm, nextKey + 1) :
          /\ hm' = r.hm
          /\ status' = IF r.crashed THEN "crashed" ELSE "ok"
    /\ nextKey' = nextKey + 1
    /\ ref' = ref \cup {nextKey + 1}
    /\ last' = [op |-> "insert", key |-> nextKey + 1, ret |-> Null]
    /\ UNCHANGED <<ndel, hashMode>>
    /\ UNCHANGED srvVars
    /\ UNCHANGED muxVars

Lookup ==
    /\ status = "ok"
    /\ \E k \in ProbeKeys : \E r \in hash_map_lookup(hm, k) :
          /\ hm' = r.hm
          /\ status' = IF r.crashed THEN "crashed" ELSE "ok"
          /\ last' = [op |-> "lookup", key |-> k, ret |-> r.ret]
    /\ UNCHANGED <<ref, nextKey, ndel, hashMode>>
    /\ UNCHANGED srvVars
    /\ UNCHANGED muxVars

Delete ==
    /\ status = "ok"
    /\ \E k \in ProbeKeys : \E r \in hash_map_delete(hm, k) :
          /\ r.ret # Null => ndel < MaxDel
          /\ hm' = r.hm
          /\ status' = IF r.crashed THEN "crashed" ELSE "ok"
          /\ last' = [op |-> "delete", key |-> k, ret |-> r.ret]
          /\ ref' = ref \ {k}
          /\ ndel' = IF r.ret # Null THEN ndel + 1 ELSE ndel
    /\ UNCHANGED <<nextKey, hashMode>>
    /\ UNCHANGED srvVars
    /\ UNCHANGED muxVars

NextMap == Insert \/ Lookup \/ Delete

SpecMap == InitMap /\ [][NextMap]_vars

-----------------------------------------------------------------------------
(* Properties of the map.                                                  *)

Tables == {hm.newer, hm.older}

RECURSIVE Flatten(_)
\* the chains of a bucket array, one after the other
Flatten(table) ==
    IF table = <<>> THEN <<>> ELSE Head(table) \o Flatten(Tail(table))

\* the nodes linked in the chains of both generations
Linked == Flatten(hm.newer.table) \o Flatten(hm.older.table)

Occurrences(node) ==
    LET linked == Linked
    IN  Cardinality({i \in 1..Len(linked) : linked[i] = node})

TotalSize(hash_map) == hash_map.newer.size + hash_map.older.size

IsPow2(n) == n > 0 /\ BitAnd(n, n - 1) = 0

\* a migration has started and has drained older
Migrated == status = "ok" /\ hm.older.table = <<>> /\ hm.newer.mask >= 2 * K_INIT_CAPACITY - 1

\* C1: after any inserts of distinct keys, hash_map_lookup of every inserted
\* key returns the node inserted for it: the call returns, and returns
\* neither null nor another node.
C1_LookupReturnsInserted ==
    /\ status = "ok"
    /\ \A k \in ref : \A r \in hash_map_lookup(hm, k) : ~r.crashed /\ r.ret = k

\* C2: hash_map_delete of a present key returns the key's node and lowers
\* newer.size + older.size by exactly one; the same delete repeated at once
\* returns null and leaves the total size as it is.
C2_DeleteOnce ==
    [][last'.op = "delete" =>
         /\ last'.key \in ref =>
                /\ status' = "ok"
                /\ last'.ret = last'.key
                /\ TotalSize(hm') = TotalSize(hm) - 1
         /\ (last.op = "delete" /\ last.key = last'.key /\ last.ret # Null) =>
                /\ last'.ret = Null
                /\ TotalSize(hm') = TotalSize(hm)]_vars

\* C3: whenever no migration is pending (older empty), the map holds exactly
\* the keys of the plain reference set ref, each once.
C3_MembershipIsReference ==
    (status = "ok" /\ hm.older.table = <<>>) =>
        /\ {Linked[i] : i \in 1..Len(Linked)} = ref
        /\ Len(Linked) = Cardinality(ref)

\* C4: each table's size field is the number of nodes linked in its chains,
\* and newer.size + older.size is the number of keys inserted and not deleted.
C4_SizeIsNodeCount ==
    status = "ok" =>
        /\ \A t \in Tables : t.size = Len(Flatten(t.table))
        /\ TotalSize(hm) = Cardinality(ref)

\* C5: the capacity (mask + 1) of every initialized table is a power of two,
\* and while no migration is pending newer.size <= capacity * 8.
C5_CapacityAndLoad ==
    /\ \A t \in Tables : t.table # <<>> =>
           /\ IsPow2(t.mask + 1)
           /\ Len(t.table) = t.mask + 1
    /\ hm.older.table = <<>> =>
           hm.newer.size <= (hm.newer.mask + 1) * K_MAX_LOAD_FACTOR

\* a migration has run to its end and newer holds the keys at the doubled
\* capacity, within the load factor
C5_Witness ==
    /\ Migrated
    /\ hm.newer.size > K_INIT_CAPACITY * K_MAX_LOAD_FACTOR
    /\ hm.newer.size <= (hm.newer.mask + 1) * K_MAX_LOAD_FACTOR

\* C6: no key is inserted while present, and every key is linked in at most
\* one bucket chain of newer and older together.
C6_KeyLinkedOnce ==
    LET linked == Linked
    IN  \A i, j \in 1..Len(linked) :
            (linked[i] \in 1..MaxKeys /\ linked[i] = linked[j]) => i = j

\* the slices of a migration have moved every key from older to newer
C6_Witness ==
    /\ Migrated
    /\ Cardinality(ref) >= 2
    /\ \A k \in ref : Occurrences(k) = 1

\* the set of nodes linked in the chains of a table
NodesOf(hash_table) ==
    LET chain == Flatten(hash_table.table)
    IN  {chain[i] : i \in 1..Len(chain)}

\* a bucket of older at or after the cursor holds a node
BucketAhead ==
    \E p \in hm.migrate_pos..hm.older.mask : hm.older.table[p + 1] # <<>>

\* C13: hash_map_migrate reads older.table[migrate_pos] only with migrate_pos
\* below older's capacity: no read has faulted or yielded a pointer that is no
\* node of the map, and while older.size > 0 a non-empty bucket lies at or
\* after migrate_pos.
C13_CursorInBounds ==
    /\ status = "ok"
    /\ (NodesOf(hm.newer) \cup NodesOf(hm.older)) \cap WildNodes = {}
    /\ (hm.older.table # <<>> /\ hm.older.size > 0) => BucketAhead

\* the capacity hash_map_insert finds or gives newer before it links the node
CapacityAtInsert ==
    IF hm.newer.table = <<>> THEN K_INIT_CAPACITY ELSE hm.newer.mask + 1

\* this step has made a fresh newer of double the capacity
RehashBegun == hm'.newer.mask + 1 = 2 * CapacityAtInsert

\* C14: hash_map_insert gives newer the capacity 4 on the first insert, and
\* begins a migration exactly when, the node linked, older is absent and the
\* number of nodes linked in newer is at least 8 times newer's capacity.
C14_MigrationAtThreshold ==
    [][last'.op = "insert" =>
         /\ hm.newer.table = <<>> => hm'.newer.mask + 1 = K_INIT_CAPACITY
         /\ RehashBegun <=>
                /\ hm.older.table = <<>>
                /\ Cardinality(NodesOf(hm.newer)) + 1
                       >= K_MAX_LOAD_FACTOR * CapacityAtInsert]_vars

\* C15: a migration that has started goes on until older.size is 0 and older
\* is released: while older is present the map operations return and older
\* still holds a node to move.
C15_MigrationEnds ==
    hm.older.table # <<>> =>
        /\ status = "ok"
        /\ NodesOf(hm.older) # {}

\* the nodes a step has linked into newer from elsewhere
MovedNodes == NodesOf(hm'.newer) \ (NodesOf(hm.newer) \cup {last'.key})

\* C16: one call moves at most 128 nodes, every node it moves into newer is a
\* node that older held (the nodes of the old newer, when the call begins the
\* migration), and migrate_pos does not decrease while a migration is in
\* flight.
C16_SliceMovesOlderNodes ==
    [][/\ Cardinality(MovedNodes) <= K_REHASHING_WORK
       /\ NodesOf(hm'.newer) \cup NodesOf(hm'.older)
              \subseteq NodesOf(hm.newer) \cup NodesOf(hm.older) \cup {last'.key}
       /\ (hm.older.table # <<>> /\ hm'.older.table # <<>>) =>
              hm'.migrate_pos >= hm.migrate_pos]_vars

\* C17: each initialized table has mask = capacity - 1, and every node in the
\* chain of bucket i has hash_code & mask = i.
C17_NodesInTheirBucket ==
    \A t \in Tables : t.table # <<>> =>
        /\ t.mask = Len(t.table) - 1
        /\ \A i \in 1..Len(t.table) : \A j \in 1..Len(t.table[i]) :
               BitAnd(HashCode(t.table[i][j]), t.mask) = i - 1

\* a migration has moved the keys into the doubled table, where some sit in
\* buckets the old table did not have, and a key has been deleted
C17_Witness ==
    /\ Migrated
    /\ ndel >= 1
    /\ \E i \in (K_INIT_CAPACITY + 1)..Len(hm.newer.table) :
           \E j \in 1..Len(hm.newer.table[i]) : hm.newer.table[i][j] \in ref

-----------------------------------------------------------------------------
(* Properties of the server.                                               *)

IsPrefix(a, b) == Len(a) <= Len(b) /\ a = SubSeq(b, 1, Len(a))

\* the bytes the server has read from the connection
Rcvd == SubSeq(stream, 1, rpos)

RECURSIVE FramePayloads(_)
\* the payloads of the frames a byte stream holds in full, in order, up to
\* the first header over 32 MiB
FramePayloads(bytes) ==
    IF Len(bytes) < 4 THEN <<>>
    ELSE LET len == U32(bytes)
         IN  IF len > K_MAX_MSG \/ Len(bytes) < 4 + len THEN <<>>
             ELSE <<SubSeq(bytes, 5, 4 + len)>>
                  \o FramePayloads(SubSeq(bytes, 5 + len, Len(bytes)))

\* incoming starts with a header that declares more than 32 MiB
Oversized == Len(conn.incoming) >= 4 /\ U32(conn.incoming) > K_MAX_MSG

\* C7: the bytes written to the socket are a prefix of the echo frames of the
\* frames received, in arrival order: the n-th reply carries the payload of
\* the n-th request.
C7_EchoInOrder ==
    /\ IsPrefix(sent, EncodeAll(FramePayloads(Rcvd)))
    /\ \A n \in 1..Len(FramePayloads(sent)) :
           FramePayloads(sent)[n] = FramePayloads(Rcvd)[n]

\* two replies with different payloads have been written in full, in pieces
C7_Witness ==
    /\ Len(FramePayloads(sent)) >= 2
    /\ FramePayloads(sent)[1] # FramePayloads(sent)[2]
    /\ Len(sent) > S2CCap

\* C8: a header over 32 MiB at the front of incoming sets want_close, the
\* connection is closed, the frame gets no reply bytes, incoming keeps all its
\* bytes and nothing after the header is decoded; a header of exactly 32 MiB
\* is not rejected.
C8_OversizedCloses ==
    reg # "pending" =>
        /\ Oversized <=> "too long" \in log
        /\ Oversized =>
               /\ conn.want_close
               /\ reg = "closed"
               /\ sent \o conn.outgoing = EncodeAll(FramePayloads(Rcvd))
               /\ Rcvd = sent \o conn.outgoing \o conn.incoming
        /\ (Len(conn.incoming) >= 4 /\ U32(conn.incoming) = K_MAX_MSG) =>
               "too long" \notin log

\* the connection was closed on an oversized header that followed a frame and
\* was followed by one: the first was answered, the last never decoded
C8_Witness ==
    /\ reg = "closed"
    /\ "too long" \in log
    /\ Len(sent) + Len(conn.outgoing) > 0
    /\ Len(conn.incoming) >= 8

\* C9: however the stream is cut into reads, what has been echoed and what is
\* still buffered is what one read of all the bytes gives: the frames read in
\* full, in order, and nothing for a frame whose last byte has not been read;
\* an incomplete frame leaves incoming and outgoing as they are.
C9_ChunkingIndependent ==
    reg # "pending" =>
        LET one == DecodeLoop([handle_accept EXCEPT !.incoming = Rcvd]).conn
        IN  /\ sent \o conn.outgoing = one.outgoing
            /\ conn.incoming = one.incoming
            /\ FramePayloads(sent \o conn.outgoing) = FramePayloads(Rcvd)
            /\ ~Oversized =>
                   /\ try_one_request(conn).conn = conn
                   /\ ~try_one_request(conn).more

\* a frame has been echoed and the next one is buffered with its header cut
C9_Witness ==
    /\ reg = "open"
    /\ Len(FramePayloads(Rcvd)) >= 1
    /\ Len(conn.incoming) \in 1..3
    /\ Len(sent) > 0

\* C18: at the top of every iteration of the event loop the connection has
\* exactly one of want_read and want_write set, and want_write exactly when
\* outgoing holds bytes; the assert of handle_write never fails.
C18_OneInterest ==
    /\ srv # "aborted"
    /\ (reg = "open" /\ srv = "running") =>
           /\ conn.want_read # conn.want_write
           /\ conn.want_write <=> Len(conn.outgoing) > 0

\* a write has been cut short and the connection waits for POLLOUT with the
\* rest of the reply
C18_Witness ==
    /\ reg = "open"
    /\ srv = "running"
    /\ conn.want_write
    /\ Len(sent) > 0
    /\ Len(conn.outgoing) > 0

\* C19: the bytes read on the connection are the bytes written to the socket,
\* then outgoing, then incoming.
C19_BytesConserved ==
    reg # "pending" => Rcvd = sent \o conn.outgoing \o conn.incoming

\* part of a reply is written, the rest is in outgoing, and the next frame is
\* cut in incoming
C19_Witness ==
    /\ reg = "open"
    /\ Len(sent) > 0
    /\ Len(conn.outgoing) > 0
    /\ Len(conn.incoming) > 0

\* the client is blocked in write() and the server in poll(), for good: the
\* client reads nothing before its last frame is written
MutualBlock ==
    /\ cpc = "send"
    /\ Avail = C2SCap
    /\ reg = "open"
    /\ Ready(FALSE) = {}

\* the frames fit the two socket buffers of the connection
FitsInFlight == Len(stream) <= C2SCap + S2CCap

\* the client has read k replies that carry its k payloads in order
GotAllReplies ==
    /\ cpc = "done"
    /\ FramePayloads(SubSeq(sent, 1, cgot)) = script

\* C10 (as stated): the pipelined client and the server never block on each
\* other for good, whatever the sizes of the k frames.
C10_NeverMutualBlock == ~MutualBlock

\* C10 (amended): a pipelined client whose k >= 1 frames fit the socket
\* buffers of the connection eventually has read exactly its k replies, in
\* order, and never meets end of file or a bad reply before.
C10_PipelinedCompletes ==
    FitsInFlight => (<>GotAllReplies /\ [](cpc # "fail"))

\* a client with two frames of different payloads has read both replies
C10_Witness ==
    /\ FitsInFlight
    /\ GotAllReplies
    /\ Len(script) >= 2
    /\ script[1] # script[2]

-----------------------------------------------------------------------------
(* Properties of the event loop with several connections.                  *)

\* the fds whose connection this step removes from the registry
Removed == {fd \in Fds : fd2conn[fd] # <<>> /\ fd2conn'[fd] = <<>>}

\* C11: no connection is removed from the registry, closed or freed while
\* connections polled in the same pass still wait for their dispatch.
C11_TeardownAfterDispatch ==
    [][Removed # {} => pidx = Len(poll_args)]_vars

\* C12: the handling of one connection's events, whatever they are, leaves
\* every other connection's slot, flags and buffers as they are, and leaves
\* the server running to serve them.
C12_EventsContained ==
    [][pc = "dispatch" =>
          /\ \A fd \in Fds \ {poll_args[pidx].fd} : fd2conn'[fd] = fd2conn[fd]
          /\ srv' = "running"]_vars

\* C20: in the dispatch loop every fd still to be handled has its Conn in the
\* registry and no handler has run on a removed one; every connection
\* accepted is live or was torn down once; and every teardown was that of a
\* connection with want_close set or with the error bit reported.
C20_LiveUntilTornDownOnce ==
    /\ srv # "crashed"
    /\ pc = "dispatch" => \A i \in pidx..Len(poll_args) : Live(poll_args[i].fd)
    /\ Len(torn) + Cardinality({fd \in Fds : Live(fd)}) = nconn - backlog
    /\ \A fd \in Fds : Live(fd) <=> net[fd].open
    /\ \A i \in 1..Len(torn) : torn[i].want_close \/ torn[i].err

\* the first connection of a pass has been torn down on want_close, and the
\* loop is about to handle the second, which is live
C20_Witness ==
    /\ pc = "dispatch"
    /\ pidx = 2
    /\ ~Live(poll_args[1].fd)
    /\ Live(poll_args[2].fd)
    /\ torn[Len(torn)].want_close
    /\ ~torn[Len(torn)].err

-----------------------------------------------------------------------------
(* The end of a connection's input, and calls that would block.            *)

\* the read() of handle_read fails, or returns no byte
ReadEnds(i) ==
    /\ "POLLIN" \in i.ready
    /\ i.r.kind = "error" \/ (i.r.kind = "data" /\ i.r.data = <<>>)

\* the read() of handle_read would block
ReadBlocks(i) == "POLLIN" \in i.ready /\ i.r.kind = "EAGAIN"

\* the connection as the write that follows the decoding finds it
AtInnerWrite(c, i) ==
    [DecodeLoop([c EXCEPT !.incoming = buf_append(@, i.r.data)]).conn
        EXCEPT !.want_read = FALSE, !.want_write = TRUE]

\* handle_read has decoded a reply and its write() would block
InnerWriteBlocks(c, i) ==
    /\ "POLLIN" \in i.ready
    /\ i.r.kind = "data"
    /\ Len(i.r.data) > 0
    /\ Len(AtInnerWrite(c, i).outgoing) > 0
    /\ i.w1.kind = "EAGAIN"

\* the connection as the dispatched handle_write finds it
AtOuterWrite(c, i) ==
    IF "POLLIN" \in i.ready THEN handle_read(c, i.r, i.w1).conn ELSE c

\* the write() of the dispatched handle_write would block
OuterWriteBlocks(c, i) ==
    /\ "POLLOUT" \in i.ready
    /\ "POLLIN" \in i.ready => handle_read(c, i.r, i.w1).exit = "no"
    /\ i.w2.kind = "EAGAIN"

\* a call that would block leaves the flags and the buffers as it found them
BlockedCallIsNoOp(c, i) ==
    /\ ReadBlocks(i) => handle_read(c, i.r, i.w1).conn = c
    /\ InnerWriteBlocks(c, i) =>
           /\ handle_write(AtInnerWrite(c, i), i.w1).conn = AtInnerWrite(c, i)
           /\ handle_write(AtInnerWrite(c, i), i.w1).wrote = <<>>
    /\ OuterWriteBlocks(c, i) =>
           /\ handle_write(AtOuterWrite(c, i), i.w2).conn = AtOuterWrite(c, i)
           /\ handle_write(AtOuterWrite(c, i), i.w2).wrote = <<>>

\* a read that fails or meets the end of file sets want_close, whatever
\* incoming holds, touches no buffer, decodes and writes nothing, and the
\* connection is removed in this pass
ReadEndCloses(c, i) ==
    ReadEnds(i) =>
        LET d == Dispatch(c, i.ready, i.r, i.w1, i.w2)
        IN  /\ d.conn.want_close
            /\ d.conn.incoming = c.incoming
            /\ d.conn.outgoing = c.outgoing
            /\ d.wrote = <<>>
            /\ d.close

\* C21 (as stated): a read that returns an error or no byte sets want_close
\* whether incoming is empty or not, leaves incoming and outgoing unchanged,
\* decodes and writes nothing more, and the connection is removed in the same
\* pass; a read or a write that would block leaves the flags and the buffers
\* unchanged and the connection stays registered.
C21_BlockedStaysRegistered ==
    (reg = "open" /\ srv = "running") =>
        \A i \in PassInputs(TRUE) :
            /\ ReadEndCloses(conn, i)
            /\ BlockedCallIsNoOp(conn, i)
            /\ (ReadBlocks(i) \/ InnerWriteBlocks(conn, i) \/ OuterWriteBlocks(conn, i)) =>
                   ~Dispatch(conn, i.ready, i.r, i.w1, i.w2).close

\* C21 (amended): as stated for the read that returns an error or no byte; a
\* read or a write that would block leaves the flags and the buffers as the
\* call found them, and the connection stays registered unless poll() reported
\* its error bit in that pass or the blocked write is the one that follows the
\* decoding of an oversized header in the same handle_read, which has set
\* want_close: then it is removed in that pass with its replies unsent.
C21_BlockedStaysUnlessClosing ==
    (reg = "open" /\ srv = "running") =>
        \A i \in PassInputs(TRUE) :
            /\ ReadEndCloses(conn, i)
            /\ BlockedCallIsNoOp(conn, i)
            /\ (ReadBlocks(i) \/ InnerWriteBlocks(conn, i) \/ OuterWriteBlocks(conn, i)) =>
                   LET d == Dispatch(conn, i.ready, i.r, i.w1, i.w2)
                   IN  d.close <=>
                          \/ "POLLERR" \in i.ready
                          \/ /\ InnerWriteBlocks(conn, i)
                             /\ "too long" \in d.log

\* the peer has closed in the middle of a frame, after a reply was written:
\* the read of no byte has closed the connection with incoming as it was
ReadEndClosed ==
    /\ reg = "closed"
    /\ "unexpected EOF" \in log
    /\ conn.want_close
    /\ Len(conn.incoming) > 0
    /\ Len(sent) > 0

\* a frame and an oversized header have been read with the socket full: the
\* write of the reply would block, and the connection is closed with the whole
\* reply in outgoing
C21_Witness ==
    /\ reg = "closed"
    /\ srv = "running"
    /\ "too long" \in log
    /\ "write() error" \notin log
    /\ InFlightBack = S2CCap
    /\ Len(conn.outgoing) > 0
    /\ sent = EncodeAll(FramePayloads(sent))

-----------------------------------------------------------------------------
(* The accept of a connection.                                             *)

\* the slots of fd2conn that this step fills
Accepted == {fd \in Fds : fd2conn[fd] = <<>> /\ fd2conn'[fd] # <<>>}

\* the connection as the claim describes it at its registration
FreshConn ==
    [want_read |-> TRUE, want_write |-> FALSE, want_close |-> FALSE,
     incoming |-> <<>>, outgoing |-> <<>>]

\* a step that fills a slot is the accept of an iteration whose listener was
\* ready, it fills one slot, empty, whose fd is free, with a fresh connection
AcceptsOne ==
    Accepted # {} =>
        /\ PollAndAccept
        /\ backlog > 0
        /\ backlog' = backlog - 1
        /\ Cardinality(Accepted) = 1
        /\ \A fd \in Accepted :
               /\ fd2conn'[fd] = <<FreshConn>>
               /\ ~net[fd].open
               /\ net'[fd].open
        /\ \A fd \in Fds \ Accepted : fd2conn'[fd] = fd2conn[fd]

\* an iteration that accepts nothing leaves the registry, the sockets and the
\* process as they were and goes on to the dispatch
FailedAcceptIsNoOp ==
    (PollAndAccept /\ Accepted = {}) =>
        /\ UNCHANGED <<fd2conn, net, backlog, nconn, torn, srv>>
        /\ pc' = IF PolledFds = <<>> THEN "poll" ELSE "dispatch"

\* C22: an iteration of the event loop accepts at most one connection, and only
\* when the listener was ready (a connection waits in the backlog); a failed
\* accept changes no state and the loop goes on; the accepted connection is
\* registered with want_read alone set and empty buffers, in a slot that is
\* empty: the assert !fd2conn[conn->fd] never fails, whatever the order of
\* accepts and closes and the reuse of fds.
C22_AcceptOneIntoEmptySlot ==
    /\ [](srv # "aborted")
    /\ [][AcceptsOne /\ FailedAcceptIsNoOp]_vars

\* a connection has been torn down on fd 1 and the next one is registered
\* there, fresh, with its socket open: the fd has been used again
C22_Witness ==
    /\ srv = "running"
    /\ \E k \in 1..Len(torn) : torn[k].fd = 1
    /\ fd2conn[1] = <<FreshConn>>
    /\ net[1].open
    /\ net[1].fresh

====
